---- MODULE Spec2Model ----
(***************************************************************************)
(* Model of the scene graph of MonacoEngine3: Entity / Component /         *)
(* HierarchyComponent and SceneGraph (registration, attach / detach,       *)
(* cycle guard).                                                           *)
(*                                                                         *)
(* Entities are the pointers 1..NumEntities, NULL is the null pointer.     *)
(* m_components[e] is Entity::m_components of e, as the sequence of the    *)
(* ComponentType tags of the attached components.  m_parent[e] and         *)
(* m_children[e] are the fields of the HierarchyComponent of e (the one    *)
(* getComponent<HierarchyComponent>() resolves); while e has no such       *)
(* component they hold the values the component is constructed with.       *)
(* m_entities is SceneGraph::m_entities.                                   *)
(*                                                                         *)
(* lastOp / ret record the last public call and what it returned; pc is    *)
(* "hung" once a call has entered a loop it can never leave (the program   *)
(* is single threaded, so nothing else runs after that).  calls counts the *)
(* public calls made so far; a run makes at most limit of them (MaxCalls,  *)
(* or DeepCalls in the specifications that follow longer runs).  repeated  *)
(* tells whether the last call repeated the call before it.  frame is what *)
(* the last call dispatched, in order: the Entity::update and              *)
(* Entity::render calls and the world values computed by the propagation   *)
(* (they are not stored anywhere by the program).                          *)
(*                                                                         *)
(* position, rotation, scale and matrix are the fields of one Transform    *)
(* component, driven by its own public methods and by GUI::editTransform;  *)
(* who calls Transform::update (Actor::update does, once per frame) is     *)
(* left open, it can be called at any time.  updated records how matrix    *)
(* was last set up by the component itself: by the constructor, by init,   *)
(* or by update together with the three vectors update read.               *)
(***************************************************************************)
EXTENDS Integers, Sequences, FiniteSets, TLC

NumEntities == 3

\* Public calls of SceneGraph in one run.
MaxCalls == 5

\* Public calls in one run of the specifications that follow longer runs.
DeepCalls == 7

NULL == 0

Entities == 1..NumEntities

EntityPtr == Entities \cup {NULL}

\* Iterations of a loop that are executed before it is declared divergent.
\* An upward walk over an acyclic hierarchy needs fewer than NumEntities.
MaxWalk == NumEntities + 1

TRANSFORM == "TRANSFORM"

HIERARCHY == "HIERARCHY"

MESH == "MESH"

\* The component types that are attached to entities.
ComponentTypes == {TRANSFORM, HIERARCHY, MESH}

\* The component list an entity is constructed with: entity 1 is a bare
\* Entity, the others are Actors (Actor::Actor adds a Transform and a
\* MeshComponent).
InitialComponents(e) == IF e = 1 THEN <<>> ELSE <<TRANSFORM, MESH>>

VARIABLES m_entities, m_components, m_parent, m_children, lastOp, ret, pc, calls,
          limit, repeated, frame, position, rotation, scale, matrix, updated

vars == <<m_entities, m_components, m_parent, m_children, lastOp, ret, pc, calls,
          limit, repeated, frame, position, rotation, scale, matrix, updated>>

\* The fields of the Transform component.
transform == <<position, rotation, scale, matrix>>

graph == <<m_entities, m_components, m_parent, m_children>>

\* The heap the SceneGraph methods work on, as one value.
Heap == [entities |-> m_entities, components |-> m_components,
         parent |-> m_parent, children |-> m_children]

Range(s) == { s[i] : i \in 1..Len(s) }

Last(s) == s[Len(s)]

(***************************************************************************)
(* Entity                                                                  *)
(***************************************************************************)

\* getComponent that keeps scanning and returns the last component of type T.
getComponent_LastMatch(st, e, T) ==
  LET hits == { i \in 1..Len(st.components[e]) : st.components[e][i] = T }
  IN IF hits = {} THEN 0 ELSE CHOOSE i \in hits : \A j \in hits : i >= j

\* Entity::getComponent<T>: position of the first component of type T in the
\* component list, 0 for the empty pointer.
getComponent(st, e, T) ==
  LET hits == { i \in 1..Len(st.components[e]) : st.components[e][i] = T }
  IN IF hits = {} THEN 0 ELSE CHOOSE i \in hits : \A j \in hits : i <= j

\* Entity::addComponent<T>: push_back, no check for a component of the type.
addComponent(st, e, T) ==
  [st EXCEPT !.components[e] = Append(@, T)]

(***************************************************************************)
(* Transform                                                               *)
(*                                                                         *)
(* A Vector3 is a triple.  A matrix built as scaling * rotation *          *)
(* translation is represented by its three factors, the rotation by the    *)
(* way it was built from its angles; factors that give the same matrix     *)
(* are given the same representation (no rotation at all angles zero, and  *)
(* no trace of the rotation under a zero scaling).                         *)
(***************************************************************************)

Zero3 == <<0, 0, 0>>

One3 == <<1, 1, 1>>

\* The vectors the setters are called with.
Positions == {Zero3, <<1, 2, 3>>}

Rotations == {Zero3, <<1, 0, 0>>}

Scales == {One3, <<2, 2, 2>>}

IdentityRotation == [order |-> "none", angles |-> Zero3]

\* XMMatrixRotationX(r.x) * XMMatrixRotationY(r.y) * XMMatrixRotationZ(r.z),
\* angles in radians.
RotationXYZ(r) ==
  IF r = Zero3 THEN IdentityRotation ELSE [order |-> "XYZ", angles |-> r]

\* XMMatrixRotationRollPitchYaw of the angles converted from degrees to
\* radians.
RotationRollPitchYawDegrees(r) ==
  IF r = Zero3 THEN IdentityRotation ELSE [order |-> "RollPitchYawDegrees", angles |-> r]

\* XMMatrixScaling(s) * rot * XMMatrixTranslation(p).
ComposeSRT(s, rot, p) ==
  [S |-> s, R |-> IF s = Zero3 THEN IdentityRotation ELSE rot, T |-> p]

\* XMMatrixIdentity(), as such a product.
IdentityMatrix == ComposeSRT(One3, IdentityRotation, Zero3)

\* The value-initialised XMMATRIX of the constructor: all sixteen entries
\* zero, which no product of a scaling, a rotation and a translation is.
ZeroMatrix == [S |-> Zero3, R |-> [order |-> "zero", angles |-> Zero3], T |-> Zero3]

\* The matrix Transform::update computes from the three vectors.
TransformMatrix(p, r, s) == ComposeSRT(s, RotationXYZ(r), p)

(***************************************************************************)
(* HierarchyComponent                                                      *)
(***************************************************************************)

\* setParent that refuses the owning entity as its own parent.
setParent_RejectsSelf(st, h, parent) ==
  IF parent = h THEN st ELSE [st EXCEPT !.parent[h] = parent]

\* HierarchyComponent::setParent on the component of entity h.
setParent(st, h, parent) == [st EXCEPT !.parent[h] = parent]

\* HierarchyComponent::isRoot on the component of entity h.
HierarchyComponent_isRoot(st, h) == st.parent[h] = NULL

\* addChild without the search for the child in the list (line 84).
addChild_NoDuplicateCheck(children, child) ==
  IF child = NULL THEN children
  ELSE Append(children, child)

\* HierarchyComponent::addChild on a child list.
addChild(children, child) ==
  IF child = NULL THEN children
  ELSE IF child \in Range(children) THEN children
  ELSE Append(children, child)

\* HierarchyComponent::removeChild on a child list (erase-remove).
removeChild(children, child) ==
  IF child = NULL THEN children
  ELSE SelectSeq(children, LAMBDA c : c # child)

(***************************************************************************)
(* SceneGraph                                                              *)
(***************************************************************************)

isRegistered(st, e) == e \in Range(st.entities)

isRoot(st, e) ==
  IF e = NULL THEN FALSE
  ELSE getComponent(st, e, HIERARCHY) = 0 \/ st.parent[e] = NULL

\* init that also resets the links of every entity.
init_ClearsLinks(st) ==
  [st EXCEPT !.entities = <<>>,
             !.parent = [e \in Entities |-> NULL],
             !.children = [e \in Entities |-> <<>>]]

\* SceneGraph::init.
init(st) == [st EXCEPT !.entities = <<>>]

\* addEntity without the isRegistered test of line 31.
addEntity_NoRegisteredCheck(st, e) ==
  IF e = NULL THEN st
  ELSE LET s1 == IF getComponent(st, e, TRANSFORM) = 0
                 THEN addComponent(st, e, TRANSFORM) ELSE st
           s2 == IF getComponent(s1, e, HIERARCHY) = 0
                 THEN addComponent(s1, e, HIERARCHY) ELSE s1
       IN [s2 EXCEPT !.entities = Append(@, e)]

\* addEntity that attaches a Transform without the test of line 36.
addEntity_AlwaysAddsTransform(st, e) ==
  IF e = NULL THEN st
  ELSE IF isRegistered(st, e) THEN st
  ELSE LET s1 == addComponent(st, e, TRANSFORM)
           s2 == IF getComponent(s1, e, HIERARCHY) = 0
                 THEN addComponent(s1, e, HIERARCHY) ELSE s1
       IN [s2 EXCEPT !.entities = Append(@, e)]

addEntity(st, e) ==
  IF e = NULL THEN st
  ELSE IF isRegistered(st, e) THEN st
  ELSE LET s1 == IF getComponent(st, e, TRANSFORM) = 0
                 THEN addComponent(st, e, TRANSFORM) ELSE st
           s2 == IF getComponent(s1, e, HIERARCHY) = 0
                 THEN addComponent(s1, e, HIERARCHY) ELSE s1
       IN [s2 EXCEPT !.entities = Append(@, e)]

\* detach without the reset of the child's parent reference (line 157).
detach_KeepsParent(st, child) ==
  IF child = NULL THEN [st |-> st, ret |-> "false"]
  ELSE IF getComponent(st, child, HIERARCHY) = 0 THEN [st |-> st, ret |-> "false"]
  ELSE LET parent == st.parent[child]
       IN IF parent = NULL THEN [st |-> st, ret |-> "true"]
          ELSE [st |-> [st EXCEPT !.children[parent] = removeChild(@, child)],
                ret |-> "true"]

\* detach that also empties the child list of the detached entity.
detach_DropsSubtree(st, child) ==
  IF child = NULL THEN [st |-> st, ret |-> "false"]
  ELSE IF getComponent(st, child, HIERARCHY) = 0 THEN [st |-> st, ret |-> "false"]
  ELSE LET parent == st.parent[child]
       IN IF parent = NULL THEN [st |-> st, ret |-> "true"]
          ELSE LET s1 == IF getComponent(st, parent, HIERARCHY) # 0
                         THEN [st EXCEPT !.children[parent] = removeChild(@, child)]
                         ELSE st
               IN [st |-> [s1 EXCEPT !.parent[child] = NULL,
                                     !.children[child] = <<>>],
                   ret |-> "true"]

\* SceneGraph::detach: the heap after the call and the value returned.
detach(st, child) ==
  IF child = NULL THEN [st |-> st, ret |-> "false"]
  ELSE IF getComponent(st, child, HIERARCHY) = 0 THEN [st |-> st, ret |-> "false"]
  ELSE LET parent == st.parent[child]
       IN IF parent = NULL THEN [st |-> st, ret |-> "true"]
          ELSE LET s1 == IF getComponent(st, parent, HIERARCHY) # 0
                         THEN [st EXCEPT !.children[parent] = removeChild(@, child)]
                         ELSE st
               IN [st |-> [s1 EXCEPT !.parent[child] = NULL], ret |-> "true"]

\* One pass through the body of the while loop of isAncestor (lines 94-98),
\* past the test of line 94: the value the `h` of the loop condition has
\* afterwards.  Line 96 declares a second `h` inside the body, and the
\* assignment of line 98 goes to that one; the `h` declared before the loop,
\* which the condition of line 92 reads, is never assigned.
isAncestorNextH(st, h, node) == h

\* The while loop of isAncestor.  h is the entity whose HierarchyComponent
\* the `h` of the loop condition points to (NULL for the empty pointer),
\* node the local `node`; "diverges" after MaxWalk iterations.  Every
\* iteration calls Entity::getComponent, so the loop is executed as written
\* and a call that diverges never returns.
RECURSIVE isAncestorLoop(_, _, _, _, _)
isAncestorLoop(st, possibleAncestor, h, node, fuel) ==
  IF h = NULL \/ st.parent[h] = NULL THEN "false"
  ELSE IF st.parent[h] = possibleAncestor THEN "true"
  ELSE IF fuel = 0 THEN "diverges"
  ELSE LET node2 == st.parent[h]
       IN isAncestorLoop(st, possibleAncestor,
                         isAncestorNextH(st, h, node2), node2, fuel - 1)

\* isAncestor with the upward walk started at possibleAncestor instead of node.
isAncestor_WalkFromAncestor(st, possibleAncestor, node) ==
  IF possibleAncestor = NULL \/ node = NULL THEN "false"
  ELSE isAncestorLoop(st, node,
                      IF getComponent(st, possibleAncestor, HIERARCHY) # 0
                      THEN possibleAncestor ELSE NULL,
                      possibleAncestor, MaxWalk)

\* SceneGraph::isAncestor: "true", "false", or "diverges" when the call
\* never returns.
isAncestor(st, possibleAncestor, node) ==
  IF possibleAncestor = NULL \/ node = NULL THEN "false"
  ELSE isAncestorLoop(st, possibleAncestor,
                      IF getComponent(st, node, HIERARCHY) # 0 THEN node ELSE NULL,
                      node, MaxWalk)

\* attach with the automatic registration moved in front of the argument
\* checks.
attach_RegisterFirst(st, child, parent) ==
  LET s1 == addEntity(st, child)
      s2 == addEntity(s1, parent)
  IN IF child = NULL \/ parent = NULL THEN [st |-> s2, ret |-> "false"]
     ELSE IF child = parent THEN [st |-> s2, ret |-> "false"]
     ELSE LET cyc == isAncestor(s2, child, parent)
          IN IF cyc = "diverges" THEN [st |-> s2, ret |-> "diverges"]
             ELSE IF cyc = "true" THEN [st |-> s2, ret |-> "false"]
             ELSE LET s3 == detach(s2, child).st
                  IN [st |-> [s3 EXCEPT !.parent[child] = parent,
                                        !.children[parent] = addChild(@, child)],
                      ret |-> "true"]

\* attach without the cycle guard of line 128.
attach_NoCycleCheck(st, child, parent) ==
  IF child = NULL \/ parent = NULL THEN [st |-> st, ret |-> "false"]
  ELSE IF child = parent THEN [st |-> st, ret |-> "false"]
  ELSE LET s1 == addEntity(st, child)
           s2 == addEntity(s1, parent)
           s3 == detach(s2, child).st
       IN [st |-> [s3 EXCEPT !.parent[child] = parent,
                             !.children[parent] = addChild(@, child)],
           ret |-> "true"]

\* attach with the cycle guard of line 128 moved in front of the automatic
\* registration of lines 124-125.
attach_CycleCheckFirst(st, child, parent) ==
  IF child = NULL \/ parent = NULL THEN [st |-> st, ret |-> "false"]
  ELSE IF child = parent THEN [st |-> st, ret |-> "false"]
  ELSE LET cyc == isAncestor(st, child, parent)
       IN IF cyc = "diverges" THEN [st |-> st, ret |-> "diverges"]
          ELSE IF cyc = "true" THEN [st |-> st, ret |-> "false"]
          ELSE LET s1 == addEntity(st, child)
                   s2 == addEntity(s1, parent)
                   s3 == detach(s2, child).st
               IN [st |-> [s3 EXCEPT !.parent[child] = parent,
                                     !.children[parent] = addChild(@, child)],
                   ret |-> "true"]

\* SceneGraph::attach: the heap after the call (or at the point where the
\* call stops making progress) and the value returned.
attach(st, child, parent) ==
  IF child = NULL \/ parent = NULL THEN [st |-> st, ret |-> "false"]
  ELSE IF child = parent THEN [st |-> st, ret |-> "false"]
  ELSE LET s1 == addEntity(st, child)
           s2 == addEntity(s1, parent)
           cyc == isAncestor(s2, child, parent)
       IN IF cyc = "diverges" THEN [st |-> s2, ret |-> "diverges"]
          ELSE IF cyc = "true" THEN [st |-> s2, ret |-> "false"]
          ELSE LET s3 == detach(s2, child).st
               IN IF getComponent(s3, child, HIERARCHY) = 0
                     \/ getComponent(s3, parent, HIERARCHY) = 0
                  THEN [st |-> s3, ret |-> "false"]
                  ELSE [st |-> [s3 EXCEPT !.parent[child] = parent,
                                          !.children[parent] = addChild(@, child)],
                        ret |-> "true"]

\* The loop of removeEntity over the copy of e's child list (lines 62-77).
RECURSIVE removeEntityChildren(_, _, _)
removeEntityChildren(st, e, childrenCopy) ==
  IF childrenCopy = <<>> THEN st
  ELSE LET c == Head(childrenCopy)
           s1 == IF getComponent(st, c, HIERARCHY) # 0 /\ st.parent[c] = e
                 THEN [st EXCEPT !.parent[c] = NULL] ELSE st
           s2 == [s1 EXCEPT !.children[e] = removeChild(@, c)]
       IN removeEntityChildren(IF c = NULL THEN st ELSE s2, e, Tail(childrenCopy))

removeEntity(st, e) ==
  IF e = NULL THEN st
  ELSE IF ~isRegistered(st, e) THEN st
  ELSE LET s1 == detach(st, e).st
           s2 == IF getComponent(s1, e, HIERARCHY) # 0
                 THEN [removeEntityChildren(s1, e, s1.children[e])
                         EXCEPT !.children[e] = <<>>]
                 ELSE s1
       IN [s2 EXCEPT !.entities = SelectSeq(@, LAMBDA x : x # e)]

\* The loop of destroy over m_entities (lines 12-21), from position i on.
RECURSIVE destroyLoop(_, _)
destroyLoop(st, i) ==
  IF i > Len(st.entities) THEN st
  ELSE LET e == st.entities[i]
           s1 == IF e # NULL /\ getComponent(st, e, HIERARCHY) # 0
                 THEN [st EXCEPT !.parent[e] = NULL, !.children[e] = <<>>]
                 ELSE st
       IN destroyLoop(s1, i + 1)

\* destroy that resets the parent references and leaves the child lists
\* (without line 19).
destroy_KeepsChildren(st) ==
  [st EXCEPT !.entities = <<>>,
             !.parent = [e \in Entities |->
                           IF e \in Range(st.entities)
                              /\ getComponent(st, e, HIERARCHY) # 0
                           THEN NULL ELSE st.parent[e]]]

\* SceneGraph::destroy.
destroy(st) == [destroyLoop(st, 1) EXCEPT !.entities = <<>>]

(***************************************************************************)
(* SceneGraph::update and SceneGraph::render.                              *)
(*                                                                         *)
(* A matrix is represented by the product it is, as the sequence of the    *)
(* entities whose Transform::matrix are its factors, left to right; this   *)
(* keeps the order of the factors, which a matrix product depends on.      *)
(***************************************************************************)

\* XMMatrixIdentity().
Identity == <<>>

\* Transform::matrix of entity e, as a factor.
LocalMatrix(e) == <<e>>

\* operator* of XMMATRIX.
MatMul(a, b) == a \o b

\* Nesting of updateWorldRecursive after which the recursion is declared
\* divergent: deeper than the number of entities, a node is on its own
\* call path and the recursion repeats itself without end.
MaxDepth == NumEntities

UpdateEvent(e) == [ev |-> "update", node |-> e, world |-> Identity]

WorldEvent(e, w) == [ev |-> "world", node |-> e, world |-> w]

RenderEvent(e) == [ev |-> "render", node |-> e, world |-> Identity]

\* SceneGraph::updateWorldRecursive at nesting depth, and its loop over the
\* child list from position i on: the world values computed, in order, and
\* whether the recursion returned.
RECURSIVE updateWorldRecursive(_, _, _, _)
RECURSIVE updateWorldChildren(_, _, _, _, _)
updateWorldRecursive(st, node, parentWorld, depth) ==
  IF depth > MaxDepth THEN [log |-> <<>>, ok |-> FALSE]
  ELSE IF getComponent(st, node, TRANSFORM) = 0
          \/ getComponent(st, node, HIERARCHY) = 0
  THEN [log |-> <<>>, ok |-> TRUE]
  ELSE LET worldMatrix == MatMul(LocalMatrix(node), parentWorld)
           sub == updateWorldChildren(st, st.children[node], 1, worldMatrix, depth)
       IN [log |-> <<WorldEvent(node, worldMatrix)>> \o sub.log, ok |-> sub.ok]

updateWorldChildren(st, children, i, worldMatrix, depth) ==
  IF i > Len(children) THEN [log |-> <<>>, ok |-> TRUE]
  ELSE LET r == updateWorldRecursive(st, children[i], worldMatrix, depth + 1)
       IN IF ~r.ok THEN r
          ELSE LET rest == updateWorldChildren(st, children, i + 1, worldMatrix, depth)
               IN [log |-> r.log \o rest.log, ok |-> rest.ok]

\* The first loop of update (lines 166-170), from position i on.
RECURSIVE updatePass1(_, _)
updatePass1(st, i) ==
  IF i > Len(st.entities) THEN <<>>
  ELSE IF st.entities[i] = NULL THEN updatePass1(st, i + 1)
  ELSE <<UpdateEvent(st.entities[i])>> \o updatePass1(st, i + 1)

\* The second loop of update (lines 173-180), from position i on.
RECURSIVE updatePass2(_, _)
updatePass2(st, i) ==
  IF i > Len(st.entities) THEN [log |-> <<>>, ok |-> TRUE]
  ELSE LET e == st.entities[i]
       IN IF e # NULL /\ isRoot(st, e)
          THEN LET r == updateWorldRecursive(st, e, Identity, 1)
               IN IF ~r.ok THEN r
                  ELSE LET rest == updatePass2(st, i + 1)
                       IN [log |-> r.log \o rest.log, ok |-> rest.ok]
          ELSE updatePass2(st, i + 1)

\* SceneGraph::update: what it dispatches and computes, in order, and
\* "void", or "diverges" when the call never returns.
update(st) ==
  LET p2 == updatePass2(st, 1)
  IN [frame |-> updatePass1(st, 1) \o p2.log,
      ret |-> IF p2.ok THEN "void" ELSE "diverges"]

\* The loop of render (lines 203-207), from position i on.
RECURSIVE renderLoop(_, _)
renderLoop(st, i) ==
  IF i > Len(st.entities) THEN <<>>
  ELSE IF st.entities[i] = NULL THEN renderLoop(st, i + 1)
  ELSE <<RenderEvent(st.entities[i])>> \o renderLoop(st, i + 1)

\* render that dispatches to the roots only.
render_RootsOnly(st) ==
  LET all == renderLoop(st, 1)
  IN SelectSeq(all, LAMBDA x : isRoot(st, x.node))

\* SceneGraph::render: the Entity::render calls it dispatches, in order.
render(st) == renderLoop(st, 1)

(***************************************************************************)
(* The state machine: one action per public call of SceneGraph.            *)
(***************************************************************************)

Call(op, a, b) == [op |-> op, a |-> a, b |-> b]

\* The state after construction, for a run of at most n calls.
InitRun(n) ==
  /\ m_entities = <<>>
  /\ m_components = [e \in Entities |-> InitialComponents(e)]
  /\ m_parent = [e \in Entities |-> NULL]
  /\ m_children = [e \in Entities |-> <<>>]
  /\ lastOp = Call("none", NULL, NULL)
  /\ ret = "void"
  /\ pc = "ready"
  /\ calls = 0
  /\ limit = n
  /\ repeated = FALSE
  /\ frame = <<>>
  /\ position = Zero3
  /\ rotation = Zero3
  /\ scale = Zero3
  /\ matrix = ZeroMatrix
  /\ updated = [by |-> "constructor", position |-> Zero3, rotation |-> Zero3,
                scale |-> Zero3]

Init == InitRun(MaxCalls)

InitDeep == InitRun(DeepCalls)

\* The application makes the public call op(a, b).
Enter(op, a, b) ==
  /\ pc = "ready"
  /\ calls < limit
  /\ calls' = calls + 1
  /\ limit' = limit
  /\ lastOp' = Call(op, a, b)
  /\ repeated' = (lastOp = Call(op, a, b))

\* The heap becomes st, the call has dispatched f and returns r (or never
\* returns).
ReturnFrame(st, r, f) ==
  /\ m_entities' = st.entities
  /\ m_components' = st.components
  /\ m_parent' = st.parent
  /\ m_children' = st.children
  /\ ret' = r
  /\ pc' = IF r = "diverges" THEN "hung" ELSE "ready"
  /\ frame' = f
  /\ UNCHANGED <<transform, updated>>

\* The heap becomes st, the call returns r (or never returns); it has
\* dispatched nothing.
Return(st, r) == ReturnFrame(st, r, <<>>)

SceneInit ==
  /\ Enter("init", NULL, NULL)
  /\ Return(init(Heap), "void")

Destroy ==
  /\ Enter("destroy", NULL, NULL)
  /\ Return(destroy(Heap), "void")

AddEntity(e) ==
  /\ Enter("addEntity", e, NULL)
  /\ Return(addEntity(Heap, e), "void")

RemoveEntity(e) ==
  /\ Enter("removeEntity", e, NULL)
  /\ Return(removeEntity(Heap, e), "void")

IsAncestor(possibleAncestor, node) ==
  /\ Enter("isAncestor", possibleAncestor, node)
  /\ Return(Heap, isAncestor(Heap, possibleAncestor, node))

Attach(child, parent) ==
  /\ Enter("attach", child, parent)
  /\ LET r == attach(Heap, child, parent) IN Return(r.st, r.ret)

Detach(child) ==
  /\ Enter("detach", child, NULL)
  /\ LET r == detach(Heap, child) IN Return(r.st, r.ret)

Update ==
  /\ Enter("update", NULL, NULL)
  /\ LET r == update(Heap) IN ReturnFrame(Heap, r.ret, r.frame)

Render ==
  /\ Enter("render", NULL, NULL)
  /\ ReturnFrame(Heap, "void", render(Heap))

\* A call on the Transform component returns: its fields become p, r, s
\* and m, and u tells how the matrix was last set up by the component.  The
\* scene graph is not involved.
ReturnTransform(p, r, s, m, u) ==
  /\ position' = p
  /\ rotation' = r
  /\ scale' = s
  /\ matrix' = m
  /\ updated' = u
  /\ ret' = "void"
  /\ UNCHANGED <<graph, pc, frame>>

\* Transform::init.
TransformInit ==
  /\ Enter("Transform::init", NULL, NULL)
  /\ ReturnTransform(position, rotation, One3, IdentityMatrix,
                     [by |-> "init", position |-> position,
                      rotation |-> rotation, scale |-> One3])

\* Transform::update.
TransformUpdate ==
  /\ Enter("Transform::update", NULL, NULL)
  /\ ReturnTransform(position, rotation, scale,
                     TransformMatrix(position, rotation, scale),
                     [by |-> "update", position |-> position,
                      rotation |-> rotation, scale |-> scale])

setPosition(newPos) ==
  /\ Enter("setPosition", NULL, NULL)
  /\ ReturnTransform(newPos, rotation, scale, matrix, updated)

setRotation(newRot) ==
  /\ Enter("setRotation", NULL, NULL)
  /\ ReturnTransform(position, newRot, scale, matrix, updated)

setScale(newScale) ==
  /\ Enter("setScale", NULL, NULL)
  /\ ReturnTransform(position, rotation, newScale, matrix, updated)

setTransform(newPos, newRot, newSca) ==
  /\ Enter("setTransform", NULL, NULL)
  /\ ReturnTransform(newPos, newRot, newSca, matrix, updated)

\* GUI::editTransform while the gizmo is in use (ImGuizmo::IsUsing()), with
\* the components the manipulated matrix decomposes into: the three
\* setters, then the assignment to Transform::matrix.
editTransform(newPos, newRot, newSca) ==
  /\ Enter("editTransform", NULL, NULL)
  /\ ReturnTransform(newPos, newRot, newSca,
                     ComposeSRT(newSca, RotationRollPitchYawDegrees(newRot), newPos),
                     updated)

\* The application attaches a component of type T to e itself.
AddComponent(e, T) ==
  /\ Enter("addComponent", e, NULL)
  /\ Return(addComponent(Heap, e, T), "void")

\* The calls the application makes on the HierarchyComponent of entity h,
\* which exists once h has one attached.
AddChild(h, child) ==
  /\ getComponent(Heap, h, HIERARCHY) # 0
  /\ Enter("addChild", h, child)
  /\ Return([Heap EXCEPT !.children[h] = addChild(@, child)], "void")

RemoveChild(h, child) ==
  /\ getComponent(Heap, h, HIERARCHY) # 0
  /\ Enter("removeChild", h, child)
  /\ Return([Heap EXCEPT !.children[h] = removeChild(@, child)], "void")

SetParent(h, parent) ==
  /\ getComponent(Heap, h, HIERARCHY) # 0
  /\ Enter("setParent", h, parent)
  /\ Return(setParent(Heap, h, parent), "void")

HierarchyIsRoot(h) ==
  /\ getComponent(Heap, h, HIERARCHY) # 0
  /\ Enter("isRoot", h, NULL)
  /\ Return(Heap, IF HierarchyComponent_isRoot(Heap, h) THEN "true" ELSE "false")

\* The calls that change the scene graph.
Next ==
  \/ SceneInit
  \/ Destroy
  \/ \E e \in EntityPtr : AddEntity(e)
  \/ \E e \in EntityPtr : RemoveEntity(e)
  \/ \E c, p \in EntityPtr : Attach(c, p)
  \/ \E c \in EntityPtr : Detach(c)

Spec == Init /\ [][Next]_vars

\* The same calls together with the const query isAncestor.
NextQuery ==
  \/ Next
  \/ \E a, n \in EntityPtr : IsAncestor(a, n)

SpecQuery == Init /\ [][NextQuery]_vars

\* The calls that change the scene graph, in runs of up to DeepCalls calls.
SpecDeep == InitDeep /\ [][Next]_vars

\* The same calls together with the per-frame calls update and render.
NextFrame ==
  \/ Next
  \/ Update
  \/ Render

SpecFrame == Init /\ [][NextFrame]_vars

SpecFrameDeep == InitDeep /\ [][NextFrame]_vars

\* Entity::addComponent called directly by the application.
NextEntity == \E e \in Entities, T \in ComponentTypes : AddComponent(e, T)

SpecEntity == Init /\ [][NextEntity]_vars

\* The calls on HierarchyComponent made directly by the application, on
\* the components of the entities it has registered.
NextHierarchy ==
  \/ \E e \in Entities : AddEntity(e)
  \/ \E h \in Entities, c \in EntityPtr : AddChild(h, c)
  \/ \E h \in Entities, c \in EntityPtr : RemoveChild(h, c)
  \/ \E h \in Entities, p \in EntityPtr : SetParent(h, p)
  \/ \E h \in Entities : HierarchyIsRoot(h)

SpecHierarchy == Init /\ [][NextHierarchy]_vars

\* The calls on the Transform component.
NextTransform ==
  \/ TransformInit
  \/ TransformUpdate
  \/ \E v \in Positions : setPosition(v)
  \/ \E v \in Rotations : setRotation(v)
  \/ \E v \in Scales : setScale(v)
  \/ \E p \in Positions, r \in Rotations, s \in Scales : setTransform(p, r, s)
  \/ \E p \in Positions, r \in Rotations, s \in Scales : editTransform(p, r, s)

SpecTransform == Init /\ [][NextTransform]_vars

TypeOK ==
  /\ m_entities \in Seq(Entities)
  /\ \A e \in Entities : m_parent[e] \in EntityPtr
  /\ pc \in {"ready", "hung"}
  /\ ret \in {"void", "true", "false", "diverges"}
  /\ calls \in 0..limit
  /\ limit \in {MaxCalls, DeepCalls}
  /\ repeated \in BOOLEAN

(***************************************************************************)
(* Properties                                                              *)
(***************************************************************************)

\* The entities reached from e by one to k steps along the parent
\* references par.
RECURSIVE AncestorsWithin(_, _, _)
AncestorsWithin(par, e, k) ==
  IF k = 0 \/ par[e] = NULL THEN {}
  ELSE {par[e]} \cup AncestorsWithin(par, par[e], k - 1)

\* The proper ancestors of e in the current state.
Ancestors(e) == AncestorsWithin(m_parent, e, NumEntities)

\* Number of occurrences of x in the sequence s.
Count(s, x) == Cardinality({ i \in 1..Len(s) : s[i] = x })

\* C1 -- Acyclicity: in every reachable state, following the parent
\* references upward from an entity never reaches that entity again.
C1_Acyclic == \A e \in Entities : e \notin Ancestors(e)

\* C1 witness: an attach that would have closed a cycle was made and
\* rejected (the child of the call is an ancestor of its parent argument).
C1_Witness ==
  /\ lastOp.op = "attach" /\ ret = "false"
  /\ lastOp.a # NULL /\ lastOp.b # NULL /\ lastOp.a # lastOp.b
  /\ lastOp.a \in Ancestors(lastOp.b)

\* C2 -- attach(child, parent) returns false whenever parent is a descendant
\* of child, at any depth.
C2_AttachRejectsDescendant ==
  [][\A c, p \in Entities :
       (lastOp' = Call("attach", c, p) /\ c \in Ancestors(p))
         => ret' = "false"]_vars

\* C3 -- attach(child, parent) returns true for distinct non-null entities
\* when child is not an ancestor of parent (also when parent has a parent);
\* afterwards child's parent is parent and child is the last child of parent.
C3_AttachSucceeds ==
  [][\A c, p \in Entities :
       (lastOp' = Call("attach", c, p) /\ c # p /\ c \notin Ancestors(p))
         => /\ ret' = "true"
            /\ m_parent'[c] = p
            /\ m_children'[p] # <<>>
            /\ Last(m_children'[p]) = c]_vars

\* C4 -- every call of isAncestor and of attach on an acyclic hierarchy
\* terminates and returns a boolean.
C4_WalkTerminates ==
  (C1_Acyclic /\ lastOp.op \in {"isAncestor", "attach"})
    => (pc = "ready" /\ ret \in {"true", "false"})

\* C5 -- isAncestor(possibleAncestor, node) returns true iff possibleAncestor
\* is a proper ancestor of node, and false when an argument is null.
C5_IsAncestorExact ==
  [][\A a, n \in EntityPtr :
       lastOp' = Call("isAncestor", a, n)
         => ret' = IF a # NULL /\ n # NULL /\ a \in Ancestors(n)
                   THEN "true" ELSE "false"]_vars

\* C6 -- single parent: right after an attach(child, parent) that returned
\* true, child's parent is parent, child occurs exactly once in parent's
\* child list and in no other entity's child list.
C6_SingleParent ==
  (lastOp.op = "attach" /\ ret = "true")
    => /\ m_parent[lastOp.a] = lastOp.b
       /\ Count(m_children[lastOp.b], lastOp.a) = 1
       /\ \A q \in Entities \ {lastOp.b} : lastOp.a \notin Range(m_children[q])

\* C7 -- parent/child mutual consistency: in every reachable state c is in
\* p's child list iff c's parent is p.
C7_MutualConsistency ==
  \A c, p \in Entities : (c \in Range(m_children[p])) <=> (m_parent[c] = p)

\* C8 -- no partial mutation on cycle rejection: when attach(child, parent)
\* returns false because child is an ancestor of parent, the registry and
\* every parent reference, child list and component list are as before.
C8_RejectionChangesNothing ==
  [][\A c, p \in Entities :
       (lastOp' = Call("attach", c, p) /\ ret' = "false" /\ c \in Ancestors(p))
         => UNCHANGED graph]_vars

\* C9 -- invalid input: attach(null, p), attach(c, null) and attach(e, e)
\* return false and change neither the registry nor any component list,
\* parent reference or child list.
C9_InvalidInputRejected ==
  [][\A c, p \in EntityPtr :
       (lastOp' = Call("attach", c, p) /\ (c = NULL \/ p = NULL \/ c = p))
         => (ret' = "false" /\ UNCHANGED graph)]_vars

\* C9 witness: one of the invalid calls attach(null, p), attach(c, null),
\* attach(e, e) was made and returned false, on an entity that is not
\* registered and has no HierarchyComponent (so a registration would show).
C9_Witness ==
  /\ lastOp.op = "attach" /\ ret = "false"
  /\ \/ lastOp.a = NULL /\ lastOp.b # NULL
     \/ lastOp.b = NULL /\ lastOp.a # NULL
     \/ lastOp.a = lastOp.b /\ lastOp.a # NULL
  /\ \E e \in {lastOp.a, lastOp.b} \ {NULL} :
       /\ ~isRegistered(Heap, e)
       /\ getComponent(Heap, e, HIERARCHY) = 0

C12_ShallowRemoval ==
  [][\A e \in Entities :
       (lastOp' = Call("removeEntity", e, NULL) /\ isRegistered(Heap, e))
         => /\ m_entities' = SelectSeq(m_entities, LAMBDA x : x # e)
            /\ m_parent'[e] = NULL
            /\ m_children'[e] = <<>>
            /\ m_parent[e] # NULL => e \notin Range(m_children'[m_parent[e]])
            /\ \A c \in Range(m_children[e]) : m_parent'[c] = NULL
            /\ \A d \in Entities \ ({e} \cup Range(m_children[e])) :
                 m_parent'[d] = m_parent[d]
            /\ \A d \in Entities \ {e, m_parent[e]} :
                 m_children'[d] = m_children[d]]_vars

\* C13 -- addEntity is idempotent: addEntity(null) and addEntity(e) on a
\* registered e change nothing, a repeated addEntity(e) changes nothing, and
\* the registry never holds a null entry or an entity twice.
C13_AddEntityIdempotent ==
  [][/\ \A e \in EntityPtr :
          lastOp' = Call("addEntity", e, NULL)
            => /\ (e = NULL \/ isRegistered(Heap, e)) => UNCHANGED graph
               /\ repeated' => UNCHANGED graph
     /\ NULL \notin Range(m_entities')
     /\ \A e \in Entities : Count(m_entities', e) <= 1]_vars

\* C13 witness: addEntity(e), addEntity(e) were called in a row and e is
\* registered once.
C13_Witness ==
  /\ lastOp.op = "addEntity" /\ repeated /\ lastOp.a # NULL
  /\ calls = 2 /\ m_entities = <<lastOp.a>>

\* C14 -- every registered entity has a Transform and a HierarchyComponent;
\* addEntity(e) always registers e and attaches exactly the missing ones (no
\* entity ever gets a second Transform or HierarchyComponent, the other
\* components stay).
C14_RegisteredHaveComponents ==
  [][/\ \A e \in Range(m_entities') :
          /\ Count(m_components'[e], TRANSFORM) = 1
          /\ Count(m_components'[e], HIERARCHY) = 1
     /\ \A e \in Entities :
          /\ Count(m_components'[e], TRANSFORM) <= 1
          /\ Count(m_components'[e], HIERARCHY) <= 1
          /\ Count(m_components'[e], MESH) = Count(m_components[e], MESH)
     /\ \A e \in Entities :
          lastOp' = Call("addEntity", e, NULL)
            => /\ e \in Range(m_entities')
               /\ \A T \in {TRANSFORM, HIERARCHY} :
                    Count(m_components'[e], T) =
                      IF Count(m_components[e], T) = 0 THEN 1
                      ELSE Count(m_components[e], T)
               /\ \A d \in Entities \ {e} : m_components'[d] = m_components[d]]_vars

\* C14 witness: the first call of the run was addEntity on an Actor, which
\* had a Transform and no HierarchyComponent; it is registered and has got
\* the HierarchyComponent only.
C14_Witness ==
  /\ lastOp.op = "addEntity" /\ calls = 1 /\ lastOp.a # NULL
  /\ m_entities = <<lastOp.a>>
  /\ m_components[lastOp.a] = <<TRANSFORM, MESH, HIERARCHY>>


\* The product of the local matrices of the ancestors of e, nearest first,
\* over at most k parent references.
RECURSIVE AncestorProduct(_, _, _)
AncestorProduct(par, e, k) ==
  IF k = 0 \/ par[e] = NULL THEN Identity
  ELSE MatMul(LocalMatrix(par[e]), AncestorProduct(par, par[e], k - 1))

\* The entities reachable from e through child lists in at most k steps.
RECURSIVE DescendantsWithin(_, _, _)
DescendantsWithin(chl, e, k) ==
  IF k = 0 THEN {}
  ELSE Range(chl[e]) \cup
       UNION { DescendantsWithin(chl, c, k - 1) : c \in Range(chl[e]) }

\* Positions of the frame log that hold an event of kind ev.
EventsOf(ev) == { i \in DOMAIN frame : frame[i].ev = ev }

\* C15 -- Propagation result: after update, every world value computed in
\* Pass 2 is the node's local matrix times the local matrices of all its
\* ancestors, nearest ancestor first and root last, starting from identity.
C15_PropagationResult ==
  lastOp.op = "update"
    => \A i \in EventsOf("world") :
         frame[i].world =
           MatMul(LocalMatrix(frame[i].node),
                  AncestorProduct(m_parent, frame[i].node, NumEntities))

\* C16 -- Update ordering: within one update call, Pass 1 calls
\* Entity::update once per registered entity in registry order before any
\* Pass 2 visit, and Pass 2 visits a node only after its parent's world
\* value has been computed.
C16_UpdateOrdering ==
  lastOp.op = "update"
    => /\ Len(frame) >= Len(m_entities)
       /\ \A i \in 1..Len(m_entities) : frame[i] = UpdateEvent(m_entities[i])
       /\ \A i \in DOMAIN frame : i > Len(m_entities) => frame[i].ev = "world"
       /\ \A i \in EventsOf("world") :
            m_parent[frame[i].node] # NULL
              => \E j \in EventsOf("world") :
                   j < i /\ frame[j].node = m_parent[frame[i].node]

\* C17 -- Propagation coverage: in every reachable state every registered
\* entity is a root or is reachable through child lists from exactly one
\* registered root, and an update that returns has visited every
\* registered entity exactly once in Pass 2.
C17_PropagationCoverage ==
  LET roots == { r \in Range(m_entities) : isRoot(Heap, r) }
  IN /\ \A e \in Range(m_entities) :
          \/ isRoot(Heap, e)
          \/ Cardinality({ r \in roots :
               e \in DescendantsWithin(m_children, r, NumEntities) }) = 1
     /\ (lastOp.op = "update" /\ pc = "ready")
          => \A e \in Range(m_entities) :
               Cardinality({ i \in EventsOf("world") : frame[i].node = e }) = 1

\* C18 -- Termination of update: in every reachable state a call of update
\* returns; the descent over child lists never comes back to a node that
\* is on its own call path.
C18_UpdateTerminates ==
  lastOp.op = "update" => ret # "diverges"


\* C19 -- render calls Entity::render exactly once on every registered
\* entity, in registry order, whether the entity is a root or a child at
\* any depth, and changes neither the registry nor any hierarchy link.
C19_RenderDispatch ==
  [][lastOp' = Call("render", NULL, NULL)
       => /\ frame' = [i \in 1..Len(m_entities) |-> RenderEvent(m_entities[i])]
          /\ \A e \in Range(m_entities) :
               Cardinality({ i \in DOMAIN frame' : frame'[i].node = e }) = 1
          /\ UNCHANGED graph]_vars

\* A render of a registry that holds a root, its child and its grandchild.
C19_Witness ==
  /\ lastOp.op = "render" /\ Len(frame) = NumEntities
  /\ \E i, j \in DOMAIN frame :
       /\ m_parent[frame[i].node] = NULL
       /\ m_parent[frame[j].node] # NULL
       /\ m_parent[m_parent[frame[j].node]] # NULL

\* C20 -- After destroy the registry is empty and every entity that was
\* registered before the call has a null parent and an empty child list,
\* while every component list is what it was.
C20_DestroyClearsLinks ==
  [][lastOp' = Call("destroy", NULL, NULL)
       => /\ m_entities' = <<>>
          /\ \A e \in Range(m_entities) :
               m_parent'[e] = NULL /\ m_children'[e] = <<>>
          /\ m_components' = m_components]_vars

\* destroy called right after an attach that registered and linked two
\* entities: both are unlinked and keep their components.
C20_Witness ==
  /\ lastOp.op = "destroy" /\ calls = 2 /\ m_entities = <<>>
  /\ Cardinality({ e \in Entities : getComponent(Heap, e, HIERARCHY) # 0 }) = 2
  /\ \A e \in Entities : m_parent[e] = NULL /\ m_children[e] = <<>>


\* C21 -- After any call attach(child, parent) with distinct non-null
\* arguments both child and parent are registered, whatever the call
\* returns.
C21_AttachRegistersBoth ==
  [][\A c, p \in Entities :
       (lastOp' = Call("attach", c, p) /\ c # p)
         => /\ isRegistered([entities |-> m_entities'], c)
            /\ isRegistered([entities |-> m_entities'], p)]_vars

\* attach(A, B) refused as a cycle (B's parent is A) as the fourth call,
\* with a third entity that is linked and not registered: init() was the
\* third call, so it is the refused attach that has registered A and B.
C21_Witness ==
  /\ lastOp.op = "attach" /\ ret = "false" /\ calls = 4
  /\ lastOp.a # NULL /\ lastOp.b # NULL /\ lastOp.a # lastOp.b
  /\ m_parent[lastOp.b] = lastOp.a
  /\ m_entities = <<lastOp.a, lastOp.b>>
  /\ \E c \in Entities \ Range(m_entities) : m_parent[c] # NULL


\* C22 -- detach(child) returns true if it unlinked child from a parent and
\* returns false if child had no parent.
C22_DetachReturnValue ==
  [][\A e \in Entities :
       lastOp' = Call("detach", e, NULL)
         => /\ m_parent[e] # NULL => (ret' = "true" /\ m_parent'[e] = NULL)
            /\ m_parent[e] = NULL => ret' = "false"]_vars


\* C23 -- Deferred recompute: at every moment Transform::matrix is the
\* identity if the component has been initialised and not updated since,
\* and otherwise, once updated, the product S*Rx*Ry*Rz*T of the position,
\* rotation and scale that were current at the last Transform::update call;
\* no setter changes it.
C23_DeferredRecompute ==
  /\ updated.by = "init" => matrix = IdentityMatrix
  /\ updated.by = "update"
       => matrix = TransformMatrix(updated.position, updated.rotation, updated.scale)


\* C24 -- getComponent<T> returns the earliest-attached component of type
\* T of the entity, or the empty pointer if there is none; addComponent
\* always appends, also when a component of the type is attached already,
\* and the lookup goes on returning the first one attached.
C24_FirstMatchLookup ==
  [][/\ \A e \in Entities, T \in ComponentTypes :
          LET found == getComponent([components |-> m_components'], e, T)
              list == m_components'[e]
          IN /\ found = 0 <=> T \notin Range(list)
             /\ found # 0 => /\ list[found] = T
                             /\ \A j \in 1..(found - 1) : list[j] # T
     /\ \A e \in Entities :
          lastOp' = Call("addComponent", e, NULL)
            => /\ Len(m_components'[e]) = Len(m_components[e]) + 1
               /\ SubSeq(m_components'[e], 1, Len(m_components[e])) = m_components[e]
               /\ \A T \in ComponentTypes :
                    getComponent(Heap, e, T) # 0
                      => getComponent([components |-> m_components'], e, T)
                           = getComponent(Heap, e, T)]_vars

\* A second component of a type was attached to an entity and the lookup
\* resolves to the first.
C24_Witness ==
  /\ lastOp.op = "addComponent" /\ lastOp.a # NULL
  /\ LET list == m_components[lastOp.a]
     IN /\ Len(list) >= 2
        /\ Count(list, Last(list)) = 2
        /\ getComponent(Heap, lastOp.a, Last(list)) < Len(list)
        /\ getComponent(Heap, lastOp.a, Last(list)) # 0


\* C25 -- HierarchyComponent child list: addChild ignores a null argument
\* and a child already present, so m_children never holds a null or a
\* duplicate; removeChild removes the given child and keeps the order of
\* the others.
C25_ChildListGuards ==
  [][/\ \A h \in Entities :
          /\ NULL \notin Range(m_children'[h])
          /\ \A c \in Entities : Count(m_children'[h], c) <= 1
     /\ \A h \in Entities, c \in EntityPtr :
          /\ lastOp' = Call("addChild", h, c)
               => /\ m_children'[h] =
                       IF c = NULL \/ c \in Range(m_children[h])
                       THEN m_children[h] ELSE m_children[h] \o <<c>>
                  /\ \A g \in Entities \ {h} : m_children'[g] = m_children[g]
          /\ lastOp' = Call("removeChild", h, c)
               => /\ m_children'[h] = SelectSeq(m_children[h], LAMBDA x : x # c)
                  /\ \A g \in Entities \ {h} : m_children'[g] = m_children[g]]_vars

\* addChild called a second time in a row with the same child, on a list
\* of two: the child is there once.
C25_Witness ==
  /\ lastOp.op = "addChild" /\ repeated /\ lastOp.b # NULL
  /\ Len(m_children[lastOp.a]) = 2
  /\ Count(m_children[lastOp.a], lastOp.b) = 1


\* C27 -- HierarchyComponent::setParent(p) overwrites m_parent with p
\* whatever p is (null, the owning entity, a descendant) and leaves every
\* child list, every other parent reference and the registry unchanged;
\* isRoot() is true iff m_parent is null.
C27_SetParentOverwrites ==
  [][\A h \in Entities :
       /\ \A p \in EntityPtr :
            lastOp' = Call("setParent", h, p)
              => /\ m_parent'[h] = p
                 /\ \A g \in Entities \ {h} : m_parent'[g] = m_parent[g]
                 /\ UNCHANGED <<m_children, m_entities, m_components>>
       /\ lastOp' = Call("isRoot", h, NULL)
            => /\ ret' = "true" <=> m_parent[h] = NULL
               /\ ret' \in {"true", "false"}
               /\ UNCHANGED graph]_vars

\* setParent has made an entity that has a child its own parent.
C27_Witness ==
  /\ lastOp.op = "setParent" /\ lastOp.b = lastOp.a
  /\ m_parent[lastOp.a] = lastOp.a
  /\ m_children[lastOp.a] # <<>>


\* An entity is registered and attached to a parent.
Attached(reg, par, e) == e \in Range(reg) /\ par[e] # NULL

\* C26 -- Registry state machine: right after addEntity(e) has registered
\* an unregistered e, e is a root with no children; an entity becomes
\* registered and attached to a parent only through a successful attach.
C26_RegistryStateMachine ==
  [][\A e \in Entities :
       /\ (lastOp' = Call("addEntity", e, NULL) /\ ~isRegistered(Heap, e))
            => /\ isRegistered([entities |-> m_entities'], e)
               /\ m_parent'[e] = NULL
               /\ m_children'[e] = <<>>
       /\ (Attached(m_entities', m_parent', e) /\ ~Attached(m_entities, m_parent, e))
            => (lastOp'.op = "attach" /\ ret' = "true")]_vars

\* C28 -- Registered closure of links: in every reachable state every
\* entity that has a parent or a child is registered, and so are its
\* parent and all its children.
C28_LinkedAreRegistered ==
  \A e \in Entities :
    (m_parent[e] # NULL \/ m_children[e] # <<>>)
      => /\ isRegistered(Heap, e)
         /\ m_parent[e] # NULL => isRegistered(Heap, m_parent[e])
         /\ \A c \in Range(m_children[e]) : isRegistered(Heap, c)

\* C29 -- detach(child) changes only child's parent reference and the old
\* parent's child list: child's own child list, the registry, the
\* components and the links of every other entity stay as they are; on a
\* null entity or one without HierarchyComponent it returns false and
\* changes nothing.
C29_DetachFrame ==
  [][\A e \in EntityPtr :
       lastOp' = Call("detach", e, NULL)
         => /\ UNCHANGED <<m_entities, m_components>>
            /\ (e = NULL \/ getComponent(Heap, e, HIERARCHY) = 0)
                 => (ret' = "false" /\ UNCHANGED graph)
            /\ e # NULL
                 => /\ m_children'[e] = m_children[e]
                    /\ \A d \in Entities \ {e} : m_parent'[d] = m_parent[d]
                    /\ \A d \in Entities \ {e, m_parent[e]} :
                         m_children'[d] = m_children[d]]_vars

\* attach(A, R); attach(C, R); detach(A): A is a root again, R has lost A
\* and kept C, and C is still attached to R.
C29_Witness ==
  /\ lastOp.op = "detach" /\ ret = "true" /\ calls = 3
  /\ Len(m_entities) = 3 /\ m_entities[1] = lastOp.a
  /\ m_parent[lastOp.a] = NULL
  /\ m_children[m_entities[2]] = <<m_entities[3]>>
  /\ m_parent[m_entities[3]] = m_entities[2]

\* C30 -- init() empties the registry and leaves every parent reference,
\* child list and component list as it was; removeEntity on a null or an
\* unregistered entity changes neither the registry nor any link.
C30_InitAndRemoveFrame ==
  [][/\ lastOp' = Call("init", NULL, NULL)
          => /\ m_entities' = <<>>
             /\ UNCHANGED <<m_parent, m_children, m_components>>
     /\ \A e \in EntityPtr :
          (lastOp' = Call("removeEntity", e, NULL) /\ ~isRegistered(Heap, e))
            => UNCHANGED graph]_vars

\* init() called on a registry of linked entities: the registry is empty
\* and the link is still there.
C30_Witness ==
  /\ lastOp.op = "init" /\ m_entities = <<>> /\ calls = 2
  /\ \E e \in Entities : m_parent[e] # NULL /\ e \in Range(m_children[m_parent[e]])

====
